---------------------------- MODULE Spec2Model ----------------------------
(***************************************************************************)
(* Model of the header-only container Conflicts<T> (conflicts.hpp).        *)
(*                                                                         *)
(* The container wraps a directed pair store (Requirements<T>, an external *)
(* library) and layers the conflict rules on it: no relation of an object  *)
(* with itself, no duplicate relation, and, in cascading mode, relations   *)
(* evaluated by recursing through the stored pairs.                        *)
(*                                                                         *)
(* A client calls one public method at a time. The assertions are compiled *)
(* in, as the death tests of the repository require: an assertion that     *)
(* fails inside a call aborts the process; the model keeps the store as it *)
(* was at that moment and stops.                                           *)
(***************************************************************************)
EXTENDS Integers, Sequences, FiniteSets, Bags

\* ------------------------------------------------------------------ bounds

\* Number of distinct objects of type T the client uses.
NumNodes == 3
\* Largest number of stored relations the client lets the container reach.
MaxSize == 3
\* Largest number of pairs in a multimap handed to set() or merge().
MaxMerge == 2
\* Call depth at which a recursion is taken to have exhausted the stack.
MaxDepth == 6

Nodes == 1..NumNodes

\* The null pointer default of the parameter prev.
NULL == 0

Pairs == Nodes \X Nodes

\* Every multimap argument, written in the order its iteration visits it.
PairSeqs == UNION {[1..n -> Pairs] : n \in 0..MaxMerge}

VARIABLES
    m_conflicts,    \* the pair store: a bag of directed pairs <<x, y>>
    m_cascading,    \* the mode chosen at construction
    pc,             \* "idle" | "returned" | "aborted" | "overflow"
    call,           \* the public method last called, with its arguments
    ret             \* what that call returned

vars == <<m_conflicts, m_cascading, pc, call, ret>>

\* ---------------------------------------------- the pair store (external)

Single(x, y) == SetToBag({<<x, y>>})

m_conflicts_add(s, x, y) == s (+) Single(x, y)

m_conflicts_remove(s, x, y) == s (-) Single(x, y)

m_conflicts_remove_all(s, x) ==
    [p \in {q \in DOMAIN s : q[1] # x /\ q[2] # x} |-> s[p]]

m_conflicts_exists(s, x, y) == BagIn(<<x, y>>, s)

has_requirements(s, x) == \E p \in DOMAIN s : p[1] = x

has_dependents(s, x) == \E p \in DOMAIN s : p[2] = x

\* n copies of the value v.
Copies(v, n) == [i \in 1..n |-> v]

\* The store's iteration order is unspecified; the model visits the objects
\* in ascending order, each as often as its pair is stored.
RECURSIVE Neighbours(_, _, _, _)
Neighbours(s, x, y, asFirst) ==
    IF y > NumNodes THEN <<>>
    ELSE LET p == IF asFirst THEN <<x, y>> ELSE <<y, x>>
         IN  Copies(y, CopiesIn(p, s)) \o Neighbours(s, x, y + 1, asFirst)

requirements(s, x) == Neighbours(s, x, 1, TRUE)

dependents(s, x) == Neighbours(s, x, 1, FALSE)

m_conflicts_size(s) == BagCardinality(s)

m_conflicts_empty(s) == BagCardinality(s) = 0

m_conflicts_get(s) == s

m_conflicts_clear(s) == EmptyBag

\* ------------------------------------------------- results of a recursion

\* The call returned v.
Returned(v) == [done |-> TRUE, val |-> v]

\* The call never returned: the recursion ran out of stack.
Overflow(v) == [done |-> FALSE, val |-> v]


\* ------------------------------------------------------------- Conflicts<T>

cascading == m_cascading

\* clear that leaves the store as it is.
clear_noop(s) == s

clear(s) == m_conflicts_clear(s)

empty(s) == m_conflicts_empty(s)

size(s) == m_conflicts_size(s)

\* in_conflict(object) that forgets the dependents.
in_conflict_object_requirements(s, object) == has_requirements(s, object)

in_conflict_object(s, object) ==
    has_requirements(s, object) \/ has_dependents(s, object)

RECURSIVE deep_search(_, _, _, _, _)
RECURSIVE deep_search_loop(_, _, _, _, _, _, _)
RECURSIVE deep_search_loop_back(_, _, _, _, _, _, _)

\* One of the two while loops of deep_search, from position i of the list.
\* The loop of deep_search without the exclusion of the predecessor.
deep_search_loop_back(s, list, i, object1, object2, prev, fuel) ==
    IF i > Len(list) THEN Returned(FALSE)
    ELSE LET r == deep_search(s, list[i], object2, object1, fuel - 1)
         IN  IF ~r.done \/ r.val THEN r
             ELSE deep_search_loop_back(s, list, i + 1, object1, object2, prev, fuel)

deep_search_loop(s, list, i, object1, object2, prev, fuel) ==
    IF i > Len(list) THEN Returned(FALSE)
    ELSE LET r == IF prev = NULL \/ ~(list[i] = prev \/ list[i] = object2)
                  THEN deep_search(s, list[i], object2, object1, fuel - 1)
                  ELSE Returned(FALSE)
         IN  IF ~r.done \/ r.val THEN r
             ELSE deep_search_loop(s, list, i + 1, object1, object2, prev, fuel)

\* deep_search without the cascading branch: direct relations only.
deep_search_direct(s, object1, object2, prev, fuel) ==
    Returned(m_conflicts_exists(s, object1, object2)
             \/ m_conflicts_exists(s, object2, object1))

deep_search(s, object1, object2, prev, fuel) ==
    IF fuel = 0 THEN Overflow(FALSE)
    ELSE LET result == m_conflicts_exists(s, object1, object2)
                       \/ m_conflicts_exists(s, object2, object1)
         IN  IF ~(~result /\ m_cascading) THEN Returned(result)
             ELSE LET reqs == deep_search_loop(s, requirements(s, object1), 1,
                                               object1, object2, prev, fuel)
                  IN  IF ~reqs.done \/ reqs.val THEN reqs
                      ELSE deep_search_loop(s, dependents(s, object1), 1,
                                            object1, object2, prev, fuel)

\* in_conflict looking the pair up in the given orientation only.
in_conflict_stored_order(s, object1, object2) ==
    Returned(m_conflicts_exists(s, object1, object2))

\* in_conflict that looks for a direct relation only, whatever the mode.
in_conflict_direct(s, object1, object2) ==
    Returned(m_conflicts_exists(s, object1, object2)
             \/ m_conflicts_exists(s, object2, object1))

\* in_conflict that answers false for equal arguments without searching.
in_conflict_distinct(s, object1, object2) ==
    IF object1 = object2 THEN Returned(FALSE)
    ELSE LET result == deep_search(s, object1, object2, NULL, MaxDepth)
         IN  IF ~result.done \/ result.val THEN result
             ELSE deep_search(s, object2, object1, NULL, MaxDepth)

in_conflict(s, object1, object2) ==
    LET result == deep_search(s, object1, object2, NULL, MaxDepth)
    IN  IF ~result.done \/ result.val THEN result
        ELSE deep_search(s, object2, object1, NULL, MaxDepth)

\* conflicts without its second loop.
conflicts_requirements(s, object) == requirements(s, object)

conflicts(s, object) == requirements(s, object) \o dependents(s, object)

RECURSIVE all_conflicts_from(_, _, _, _)
RECURSIVE all_conflicts_loop(_, _, _, _, _, _)

\* The for loop of all_conflicts without the test on prev.
all_conflicts_loop_back(s, confs, i, object, prev, fuel) ==
    IF i > Len(confs) THEN Returned(<<>>)
    ELSE LET con == confs[i]
             sub == all_conflicts_from(s, con, object, fuel - 1)
             rest == all_conflicts_loop(s, confs, i + 1, object, prev, fuel)
         IN  IF ~sub.done THEN sub
             ELSE IF ~rest.done THEN rest
             ELSE Returned(<<con>> \o sub.val \o rest.val)

\* One of the two for loops of the recursive all_conflicts, from position i
\* of the list confs.
all_conflicts_loop(s, confs, i, object, prev, fuel) ==
    IF i > Len(confs) THEN Returned(<<>>)
    ELSE LET con == confs[i]
             res == IF prev = NULL \/ ~(con = prev)
                    THEN LET sub == all_conflicts_from(s, con, object, fuel - 1)
                         IN  IF sub.done THEN Returned(<<con>> \o sub.val)
                             ELSE sub
                    ELSE Returned(<<>>)
         IN  IF ~res.done THEN res
             ELSE LET rest == all_conflicts_loop(s, confs, i + 1, object, prev, fuel)
                  IN  IF rest.done THEN Returned(res.val \o rest.val) ELSE rest

all_conflicts_from(s, object, prev, fuel) ==
    IF fuel = 0 THEN Overflow(<<>>)
    ELSE LET reqs == all_conflicts_loop(s, requirements(s, object), 1,
                                        object, prev, fuel)
         IN  IF ~reqs.done THEN reqs
             ELSE LET deps == all_conflicts_loop(s, dependents(s, object), 1,
                                                 object, prev, fuel)
                  IN  IF deps.done THEN Returned(reqs.val \o deps.val) ELSE deps

\* all_conflicts that recurses whatever the mode.
all_conflicts_recursive(s, object) ==
    all_conflicts_from(s, object, NULL, MaxDepth)

all_conflicts(s, object) ==
    IF ~m_cascading THEN Returned(conflicts(s, object))
    ELSE all_conflicts_from(s, object, NULL, MaxDepth)

get(s) == m_conflicts_get(s)

\* What a mutating call leaves behind: the store, and whether the call
\* returned ("ok"), died on an assertion ("aborted") or never returned
\* ("overflow").
Outcome(status, s) == [status |-> status, store |-> s]

\* add without its first assertion.
add_no_self_check(s, object1, object2) ==
    LET found == in_conflict(s, object1, object2)
    IN  IF ~found.done THEN Outcome("overflow", s)
        ELSE IF found.val THEN Outcome("aborted", s)
        ELSE Outcome("ok", m_conflicts_add(s, object1, object2))

\* add whose second assertion looks at the stored pairs only.
add_direct_only(s, object1, object2) ==
    IF object1 = object2 THEN Outcome("aborted", s)
    ELSE IF m_conflicts_exists(s, object1, object2)
            \/ m_conflicts_exists(s, object2, object1)
         THEN Outcome("aborted", s)
         ELSE Outcome("ok", m_conflicts_add(s, object1, object2))

\* add without its second assertion.
add_unchecked(s, object1, object2) ==
    IF object1 = object2 THEN Outcome("aborted", s)
    ELSE Outcome("ok", m_conflicts_add(s, object1, object2))

\* add that stores the pair in both orientations.
add_both_orientations(s, object1, object2) ==
    IF object1 = object2 THEN Outcome("aborted", s)
    ELSE LET found == in_conflict(s, object1, object2)
         IN  IF ~found.done THEN Outcome("overflow", s)
             ELSE IF found.val THEN Outcome("aborted", s)
             ELSE Outcome("ok", m_conflicts_add(m_conflicts_add(s, object1, object2),
                                                object2, object1))

add(s, object1, object2) ==
    IF object1 = object2 THEN Outcome("aborted", s)
    ELSE LET found == in_conflict(s, object1, object2)
         IN  IF ~found.done THEN Outcome("overflow", s)
             ELSE IF found.val THEN Outcome("aborted", s)
             ELSE Outcome("ok", m_conflicts_add(s, object1, object2))

\* remove that searches the given orientation only.
remove_stored_order(s, object1, object2) ==
    IF m_conflicts_exists(s, object1, object2)
    THEN Outcome("ok", m_conflicts_remove(s, object1, object2))
    ELSE Outcome("aborted", s)

\* remove that takes note of the entry found in the given orientation only.
remove_found_first_only(s, object1, object2) ==
    LET first == m_conflicts_exists(s, object1, object2)
        s1 == IF first THEN m_conflicts_remove(s, object1, object2) ELSE s
        second == m_conflicts_exists(s1, object2, object1)
        s2 == IF second THEN m_conflicts_remove(s1, object2, object1) ELSE s1
    IN  IF first THEN Outcome("ok", s2) ELSE Outcome("aborted", s2)

\* remove that deletes an entry of the given orientation only, and is
\* content with having found the other one.
remove_keeps_reverse(s, object1, object2) ==
    LET found1 == m_conflicts_exists(s, object1, object2)
        s1 == IF found1 THEN m_conflicts_remove(s, object1, object2) ELSE s
        found2 == m_conflicts_exists(s1, object2, object1)
    IN  IF found1 \/ found2 THEN Outcome("ok", s1) ELSE Outcome("aborted", s1)

remove(s, object1, object2) ==
    LET found1 == m_conflicts_exists(s, object1, object2)
        s1 == IF found1 THEN m_conflicts_remove(s, object1, object2) ELSE s
        found2 == m_conflicts_exists(s1, object2, object1)
        s2 == IF found2 THEN m_conflicts_remove(s1, object2, object1) ELSE s1
    IN  IF found1 \/ found2 THEN Outcome("ok", s2) ELSE Outcome("aborted", s2)

\* remove(object) whose assertion forgets the dependents.
remove_object_requirements(s, object) ==
    IF has_requirements(s, object)
    THEN Outcome("ok", m_conflicts_remove_all(s, object))
    ELSE Outcome("aborted", s)

remove_object(s, object) ==
    IF in_conflict_object(s, object)
    THEN Outcome("ok", m_conflicts_remove_all(s, object))
    ELSE Outcome("aborted", s)

\* merge from position i of the multimap's iteration.
RECURSIVE merge(_, _, _)
RECURSIVE merge_skip(_, _, _)
\* merge that goes on to the next pair after a rejected one.
merge_skip(s, pairs, i) ==
    IF i > Len(pairs) THEN Outcome("ok", s)
    ELSE LET added == add(s, pairs[i][1], pairs[i][2])
             rest == merge_skip(added.store, pairs, i + 1)
         IN  IF added.status = "ok" THEN rest
             ELSE Outcome(added.status, rest.store)

merge(s, pairs, i) ==
    IF i > Len(pairs) THEN Outcome("ok", s)
    ELSE LET added == add(s, pairs[i][1], pairs[i][2])
         IN  IF added.status = "ok" THEN merge(added.store, pairs, i + 1)
             ELSE added

\* set that forgets to clear.
set_no_clear(s, pairs) == merge(s, pairs, 1)

set(s, pairs) == merge(clear(s), pairs, 1)

\* The orders in which an iteration can visit the pairs of the multimap m.
Orders(m) ==
    {order \in [1..BagCardinality(m) -> DOMAIN m] :
        \A p \in DOMAIN m :
            Cardinality({i \in DOMAIN order : order[i] = p}) = m[p]}

\* ------------------------------------------------------------ the client

\* A void method returns nothing.
Void == <<>>

NoCall == [op |-> "none", args |-> <<>>]

\* The constructors: Conflicts() is Conflicts(false), Conflicts(cascading)
\* keeps its argument; the store starts empty.
Conflicts(ctor_args) ==
    [m_conflicts |-> EmptyBag,
     m_cascading |-> IF ctor_args = <<>> THEN FALSE ELSE ctor_args[1]]

\* The client has constructed its container, by either constructor.
Init ==
    \E ctor_args \in {<<>>} \cup {<<c>> : c \in BOOLEAN} :
        /\ m_conflicts = Conflicts(ctor_args).m_conflicts
        /\ m_cascading = Conflicts(ctor_args).m_cascading
        /\ pc = "returned"
        /\ call = [op |-> "Conflicts", args |-> ctor_args]
        /\ ret = Void

\* A mutating call with outcome out.
Mutate(op, args, out) ==
    /\ pc = "idle"
    /\ size(out.store) <= MaxSize
    /\ m_conflicts' = out.store
    /\ pc' = IF out.status = "ok" THEN "returned" ELSE out.status
    /\ call' = [op |-> op, args |-> args]
    /\ ret' = Void
    /\ UNCHANGED m_cascading

\* A const call that returns v.
Query(op, args, v) ==
    /\ pc = "idle"
    /\ pc' = "returned"
    /\ call' = [op |-> op, args |-> args]
    /\ ret' = v
    /\ UNCHANGED <<m_conflicts, m_cascading>>

\* A const call whose recursion returns r.val, or does not return.
Search(op, args, r) ==
    /\ pc = "idle"
    /\ pc' = IF r.done THEN "returned" ELSE "overflow"
    /\ call' = [op |-> op, args |-> args]
    /\ ret' = r.val
    /\ UNCHANGED <<m_conflicts, m_cascading>>

Add(object1, object2) ==
    Mutate("add", <<object1, object2>>, add(m_conflicts, object1, object2))

Remove(object1, object2) ==
    Mutate("remove", <<object1, object2>>, remove(m_conflicts, object1, object2))

RemoveObject(object) ==
    Mutate("remove_object", <<object>>, remove_object(m_conflicts, object))

\* clear that builds the container anew.
Clear_resets_mode ==
    /\ pc = "idle"
    /\ m_conflicts' = Conflicts(<<>>).m_conflicts
    /\ m_cascading' = Conflicts(<<>>).m_cascading
    /\ pc' = "returned"
    /\ call' = [op |-> "clear", args |-> <<>>]
    /\ ret' = Void

Clear == Mutate("clear", <<>>, Outcome("ok", clear(m_conflicts)))

Set(pairs) == Mutate("set", <<>>, set(m_conflicts, pairs))

Merge(pairs) == Mutate("merge", <<>>, merge(m_conflicts, pairs, 1))

\* set(get()): the multimap that get returns, handed back to set, which
\* iterates it in some order.
SetGet(order) == Mutate("set_get", <<>>, set(m_conflicts, order))

Cascading == Query("cascading", <<>>, cascading)

Empty == Query("empty", <<>>, empty(m_conflicts))

Size == Query("size", <<>>, size(m_conflicts))

Get == Query("get", <<>>, get(m_conflicts))

InConflictObject(object) ==
    Query("in_conflict_object", <<object>>, in_conflict_object(m_conflicts, object))

ConflictsOf(object) ==
    Query("conflicts", <<object>>, conflicts(m_conflicts, object))

InConflict(object1, object2) ==
    Search("in_conflict", <<object1, object2>>,
           in_conflict(m_conflicts, object1, object2))

AllConflicts(object) ==
    Search("all_conflicts", <<object>>, all_conflicts(m_conflicts, object))

\* The caller has looked at the result and goes on to its next call.
Continue ==
    /\ pc = "returned"
    /\ pc' = "idle"
    /\ call' = NoCall
    /\ ret' = Void
    /\ UNCHANGED <<m_conflicts, m_cascading>>

Next ==
    \/ \E object1, object2 \in Nodes : Add(object1, object2)
    \/ \E object1, object2 \in Nodes : Remove(object1, object2)
    \/ \E object \in Nodes : RemoveObject(object)
    \/ Clear
    \/ pc = "idle" /\ \E pairs \in PairSeqs : Set(pairs)
    \/ pc = "idle" /\ \E pairs \in PairSeqs : Merge(pairs)
    \/ \E order \in Orders(get(m_conflicts)) : SetGet(order)
    \/ Cascading
    \/ Empty
    \/ Size
    \/ Get
    \/ \E object \in Nodes : InConflictObject(object)
    \/ \E object \in Nodes : ConflictsOf(object)
    \/ \E object1, object2 \in Nodes : InConflict(object1, object2)
    \/ \E object \in Nodes : AllConflicts(object)
    \/ Continue

Spec == Init /\ [][Next]_vars

\* A client that keeps, with each call of merge, the pairs it passed and
\* the relations the container held when it made the call.
MergeTraced(pairs) ==
    Mutate("merge", <<pairs, get(m_conflicts)>>, merge(m_conflicts, pairs, 1))

NextMerge ==
    \/ \E object1, object2 \in Nodes : Add(object1, object2)
    \/ \E object1, object2 \in Nodes : Remove(object1, object2)
    \/ \E object \in Nodes : RemoveObject(object)
    \/ Clear
    \/ pc = "idle" /\ \E pairs \in PairSeqs : MergeTraced(pairs)
    \/ Continue

SpecMerge == Init /\ [][NextMerge]_vars

\* ---------------------------------------------- vocabulary of the claims

\* The directed pair (a, b) is stored in s.
StoredIn(s, a, b) == CopiesIn(<<a, b>>, s) > 0

\* A relation between a and b is stored in s, in either orientation.
LinkedIn(s, a, b) == StoredIn(s, a, b) \/ StoredIn(s, b, a)

\* The nodes that a path of stored relations, taken without regard to
\* direction, reaches from the nodes of reached.
RECURSIVE Closure(_, _)
Closure(s, reached) ==
    LET next == reached \cup {b \in Nodes : \E a \in reached : LinkedIn(s, a, b)}
    IN  IF next = reached THEN reached ELSE Closure(s, next)

Component(s, a) == Closure(s, {a})

\* Distinct nodes a and b are joined by a path of stored relations.
ConnectedIn(s, a, b) == a # b /\ b \in Component(s, a)

\* What in_conflict(a, b) is said to answer in the mode of the container.
InConflictIn(s, a, b) ==
    IF m_cascading THEN ConnectedIn(s, a, b) ELSE LinkedIn(s, a, b)

\* The number of stored entries that have a as an endpoint.
RelationsOf(s, a) ==
    BagCardinality([p \in {q \in DOMAIN s : q[1] = a \/ q[2] = a} |-> s[p]])

\* How often v occurs in the sequence seq.
Count(seq, v) == Cardinality({i \in DOMAIN seq : seq[i] = v})

Called(op) == call.op = op

\* ------------------------------------------------------------------ claims

\* C1: for distinct nodes a and b, in_conflict(a, b) returns true exactly
\* when a relation between them is stored (cascading off), respectively
\* when a path of stored relations joins them (cascading on); the answer a
\* call of in_conflict has returned is that one.
C1_InConflictMeaning ==
    /\ \A a, b \in Nodes :
          a # b => in_conflict(m_conflicts, a, b)
                     = Returned(InConflictIn(m_conflicts, a, b))
    /\ (Called("in_conflict") /\ call.args[1] # call.args[2])
          => /\ pc = "returned"
             /\ ret = InConflictIn(m_conflicts, call.args[1], call.args[2])

\* A cascading container has answered true for two nodes that only a chain
\* through a third one joins.
C1_Witness ==
    /\ m_cascading
    /\ Called("in_conflict")
    /\ pc = "returned"
    /\ call.args[1] # call.args[2]
    /\ ~LinkedIn(m_conflicts, call.args[1], call.args[2])
    /\ ret = TRUE

\* C2: add(a, a) is rejected for every node a in every state, and no stored
\* relation has equal endpoints.
C2_Irreflexive ==
    /\ \A p \in DOMAIN m_conflicts : p[1] # p[2]
    /\ \A a \in Nodes : add(m_conflicts, a, a) = Outcome("aborted", m_conflicts)
    /\ (Called("add") /\ call.args[1] = call.args[2]) => pc = "aborted"

\* add(a, a) has been rejected by a container that holds relations.
C2_Witness ==
    /\ Called("add")
    /\ call.args[1] = call.args[2]
    /\ pc = "aborted"
    /\ in_conflict_object(m_conflicts, call.args[1])

\* C3: add(a, b) is rejected exactly when a = b or a and b are already in
\* conflict: directly stored with cascading off, joined by a chain with
\* cascading on. A stored pair is rejected again in both orientations.
C3_AddRejectedIffInConflict ==
    /\ \A a, b \in Nodes :
          (add(m_conflicts, a, b).status = "aborted")
             <=> (a = b \/ InConflictIn(m_conflicts, a, b))
    /\ \A a, b \in Nodes :
          add(m_conflicts, a, b).status \in {"ok", "aborted"}
    /\ \A p \in DOMAIN m_conflicts :
          /\ add(m_conflicts, p[1], p[2]).status = "aborted"
          /\ add(m_conflicts, p[2], p[1]).status = "aborted"
    /\ (Called("add") /\ pc = "aborted")
          => \/ call.args[1] = call.args[2]
             \/ InConflictIn(m_conflicts, call.args[1], call.args[2])
    /\ (Called("add") /\ pc = "returned")
          => LET before == m_conflicts (-) Single(call.args[1], call.args[2])
             IN  /\ call.args[1] # call.args[2]
                 /\ StoredIn(m_conflicts, call.args[1], call.args[2])
                 /\ ~InConflictIn(before, call.args[1], call.args[2])

\* A cascading container has rejected a pair that is not stored but implied
\* by a chain.
C3_Witness ==
    /\ m_cascading
    /\ Called("add")
    /\ pc = "aborted"
    /\ call.args[1] # call.args[2]
    /\ ~LinkedIn(m_conflicts, call.args[1], call.args[2])
    /\ ConnectedIn(m_conflicts, call.args[1], call.args[2])

\* C4: between two distinct nodes the store holds at most one directed
\* entry: never both orientations, never the same pair twice.
C4_OneEntryPerPair ==
    \A a, b \in Nodes :
        a # b => CopiesIn(<<a, b>>, m_conflicts) + CopiesIn(<<b, a>>, m_conflicts) <= 1

\* The reverse of a stored pair has been offered to add and rejected.
C4_Witness ==
    /\ Called("add")
    /\ pc = "aborted"
    /\ StoredIn(m_conflicts, call.args[2], call.args[1])
    /\ call.args[1] # call.args[2]

\* C5: in_conflict(a, b) and in_conflict(b, a) return the same answer, for
\* all nodes and in both modes.
C5_InConflictSymmetric ==
    \A a, b \in Nodes :
        in_conflict(m_conflicts, a, b) = in_conflict(m_conflicts, b, a)

\* in_conflict has answered true for a pair that is stored in the other
\* orientation only.
C5_Witness ==
    /\ Called("in_conflict")
    /\ pc = "returned"
    /\ StoredIn(m_conflicts, call.args[2], call.args[1])
    /\ ~StoredIn(m_conflicts, call.args[1], call.args[2])
    /\ ret = TRUE

\* C6: remove(a, b) succeeds exactly when a relation between a and b is
\* stored, in whichever orientation and argument order; it then deletes that
\* one entry (size drops by one, every other entry stays); otherwise it
\* fails, also for nodes joined only through other nodes.
C6_RemovePair ==
    /\ \A a, b \in Nodes :
          LET out == remove(m_conflicts, a, b)
          IN  /\ out.status \in {"ok", "aborted"}
              /\ (out.status = "ok") <=> LinkedIn(m_conflicts, a, b)
              /\ out.status = "aborted" => out.store = m_conflicts
              /\ out.status = "ok" =>
                    /\ size(out.store) = size(m_conflicts) - 1
                    /\ ~LinkedIn(out.store, a, b)
                    /\ \A p \in Pairs \ {<<a, b>>, <<b, a>>} :
                          CopiesIn(p, out.store) = CopiesIn(p, m_conflicts)
    /\ Called("remove") =>
          /\ pc \in {"returned", "aborted"}
          /\ ~LinkedIn(m_conflicts, call.args[1], call.args[2])

\* remove(a, b) has failed in a cascading container for two nodes that a
\* chain of other relations joins.
C6_Witness ==
    /\ m_cascading
    /\ Called("remove")
    /\ pc = "aborted"
    /\ ConnectedIn(m_conflicts, call.args[1], call.args[2])

\* C7: remove(a) fails when a has no stored relation; otherwise it deletes
\* every entry that has a as an endpoint and no other, so that in_conflict(a)
\* is false afterwards and size has dropped by the number of relations of a.
C7_RemoveObject ==
    /\ \A a \in Nodes :
          LET out == remove_object(m_conflicts, a)
          IN  /\ (out.status = "aborted") <=> (RelationsOf(m_conflicts, a) = 0)
              /\ out.status = "aborted" => out.store = m_conflicts
              /\ out.status # "aborted" =>
                    /\ out.status = "ok"
                    /\ ~in_conflict_object(out.store, a)
                    /\ size(out.store) = size(m_conflicts) - RelationsOf(m_conflicts, a)
                    /\ \A p \in Pairs :
                          CopiesIn(p, out.store)
                            = IF p[1] = a \/ p[2] = a THEN 0
                              ELSE CopiesIn(p, m_conflicts)
    /\ Called("remove_object") =>
          /\ pc \in {"returned", "aborted"}
          /\ RelationsOf(m_conflicts, call.args[1]) = 0

\* remove(a) has succeeded and has left relations between other nodes.
C7_Witness ==
    /\ Called("remove_object")
    /\ pc = "returned"
    /\ size(m_conflicts) > 0

\* C8: in_conflict(a) is true exactly when a is an endpoint of a stored
\* relation, in both modes, which is exactly when conflicts(a) is not empty.
C8_InConflictObject ==
    /\ \A a \in Nodes :
          /\ in_conflict_object(m_conflicts, a) = (RelationsOf(m_conflicts, a) > 0)
          /\ in_conflict_object(m_conflicts, a) = (Len(conflicts(m_conflicts, a)) > 0)
    /\ Called("in_conflict_object") =>
          /\ pc = "returned"
          /\ ret = (RelationsOf(m_conflicts, call.args[1]) > 0)

\* in_conflict(a) has answered true for a node that is only the second
\* element of stored pairs.
C8_Witness ==
    /\ Called("in_conflict_object")
    /\ ret = TRUE
    /\ ~has_requirements(m_conflicts, call.args[1])

\* C9: conflicts(a) holds exactly the nodes that a stored relation joins to
\* a, each once, in both modes; its length is the number of relations of a.
C9_ConflictsDirect ==
    /\ \A a \in Nodes :
          LET direct == conflicts(m_conflicts, a)
          IN  /\ \A b \in Nodes :
                    Count(direct, b) = IF LinkedIn(m_conflicts, a, b) THEN 1 ELSE 0
              /\ Len(direct) = RelationsOf(m_conflicts, a)
    /\ Called("conflicts") =>
          /\ pc = "returned"
          /\ \A b \in Nodes :
                Count(ret, b) = IF LinkedIn(m_conflicts, call.args[1], b) THEN 1 ELSE 0

\* conflicts(a) of a cascading container has returned the direct neighbours
\* of a and has left out a node that a chain joins to a.
C9_Witness ==
    /\ m_cascading
    /\ Called("conflicts")
    /\ Len(ret) > 0
    /\ \E b \in Nodes :
          /\ ConnectedIn(m_conflicts, call.args[1], b)
          /\ Count(ret, b) = 0

\* C10: with cascading on, all_conflicts(a) returns, and holds exactly the
\* nodes other than a that a chain of stored relations joins to a, each
\* once; so its length is the size of the component of a minus one and it
\* holds every node of conflicts(a).
C10_AllConflictsComponent ==
    m_cascading =>
      /\ \A a \in Nodes :
            LET all == all_conflicts(m_conflicts, a)
                direct == conflicts(m_conflicts, a)
            IN  /\ all.done
                /\ \A b \in Nodes :
                      Count(all.val, b) = IF ConnectedIn(m_conflicts, a, b) THEN 1 ELSE 0
                /\ Len(all.val) = Cardinality(Component(m_conflicts, a)) - 1
                /\ \A i \in DOMAIN direct : Count(all.val, direct[i]) = 1
      /\ Called("all_conflicts") =>
            /\ pc = "returned"
            /\ \A b \in Nodes :
                  Count(ret, b)
                    = IF ConnectedIn(m_conflicts, call.args[1], b) THEN 1 ELSE 0

\* all_conflicts(a) has returned a node that no stored relation joins to a
\* directly.
C10_Witness ==
    /\ m_cascading
    /\ Called("all_conflicts")
    /\ pc = "returned"
    /\ \E b \in Nodes :
          /\ Count(ret, b) = 1
          /\ ~LinkedIn(m_conflicts, call.args[1], b)

\* C11: with cascading off, all_conflicts(a) returns the sequence that
\* conflicts(a) returns, also when the stored relations form a cycle and
\* for a node without relation.
C11_AllConflictsIsConflicts ==
    ~m_cascading =>
      /\ \A a \in Nodes :
            all_conflicts(m_conflicts, a) = Returned(conflicts(m_conflicts, a))
      /\ Called("all_conflicts") =>
            /\ pc = "returned"
            /\ ret = conflicts(m_conflicts, call.args[1])
            /\ \A b \in Nodes :
                  Count(ret, b)
                    = IF LinkedIn(m_conflicts, call.args[1], b) THEN 1 ELSE 0

\* all_conflicts(a) has returned the two direct neighbours of a in a
\* non-cascading container whose relations form a cycle through a.
C11_Witness ==
    /\ ~m_cascading
    /\ Called("all_conflicts")
    /\ pc = "returned"
    /\ Len(ret) = 2
    /\ \E b, c \in Nodes :
          /\ Cardinality({call.args[1], b, c}) = 3
          /\ LinkedIn(m_conflicts, call.args[1], b)
          /\ LinkedIn(m_conflicts, b, c)
          /\ LinkedIn(m_conflicts, c, call.args[1])

\* C12: set(get()) succeeds in every state and in both modes, in whatever
\* order the pairs are iterated, and leaves the stored relations as they
\* were.
C12_SetGetRoundTrip ==
    /\ \A order \in Orders(get(m_conflicts)) :
          set(m_conflicts, order) = Outcome("ok", m_conflicts)
    /\ Called("set_get") => pc = "returned"

\* set(get()) has returned in a cascading container that holds a chain of
\* relations.
C12_Witness ==
    /\ m_cascading
    /\ Called("set_get")
    /\ pc = "returned"
    /\ \E a, b, c \in Nodes :
          /\ Cardinality({a, b, c}) = 3
          /\ LinkedIn(m_conflicts, a, b)
          /\ LinkedIn(m_conflicts, b, c)

\* The relations of s together with the first k pairs of pairs.
PrefixStore(s, pairs, k) ==
    LET taken == {pairs[j] : j \in 1..k}
    IN  s (+) [p \in taken |-> Cardinality({j \in 1..k : pairs[j] = p})]

\* The pair p is one that add rejects in s.
RejectedIn(s, p) == p[1] = p[2] \/ InConflictIn(s, p[1], p[2])

\* The index of the first pair that is rejected when the pairs before it
\* have been added, or Len(pairs) + 1 when none is.
FirstRejected(s, pairs) ==
    LET rejected == {i \in DOMAIN pairs :
                        RejectedIn(PrefixStore(s, pairs, i - 1), pairs[i])}
    IN  IF rejected = {} THEN Len(pairs) + 1
        ELSE CHOOSE i \in rejected : \A j \in rejected : i <= j

\* C13: merge(pairs) adds the pairs in iteration order up to the first one
\* that add rejects: the pairs before it are stored and stay stored, that
\* one and those after it are not added, and the call fails; when no pair
\* is rejected all of them are stored and the call returns.
C13_MergeStopsAtFirstRejected ==
    Called("merge") =>
        LET pairs == call.args[1]
            before == call.args[2]
            stop == FirstRejected(before, pairs)
        IN  /\ m_conflicts = PrefixStore(before, pairs, stop - 1)
            /\ pc = IF stop > Len(pairs) THEN "returned" ELSE "aborted"

\* merge on an empty container has stored its first pair and has failed at
\* its second one.
C13_Witness ==
    /\ Called("merge")
    /\ pc = "aborted"
    /\ call.args[2] = EmptyBag
    /\ Len(call.args[1]) = 2
    /\ m_conflicts = Single(call.args[1][1][1], call.args[1][1][2])

\* C14: a call of add, remove(a, b) or remove(a) that fails leaves the
\* stored relations and the cascading mode as they were before the call;
\* and the call fails when add is given equal nodes or nodes in conflict,
\* when remove(a, b) finds neither orientation stored, when remove(a) is
\* given a node without relation.
C14_RejectedChangesNothing ==
    [][LET op == call'.op
           args == call'.args
           rejected ==
               \/ /\ op = "add"
                  /\ \/ args[1] = args[2]
                     \/ InConflictIn(m_conflicts, args[1], args[2])
               \/ /\ op = "remove"
                  /\ ~LinkedIn(m_conflicts, args[1], args[2])
               \/ /\ op = "remove_object"
                  /\ RelationsOf(m_conflicts, args[1]) = 0
       IN  /\ rejected => pc' = "aborted"
           /\ (op \in {"add", "remove", "remove_object"} /\ pc' = "aborted")
                 => /\ m_conflicts' = m_conflicts
                    /\ m_cascading' = m_cascading
                    /\ rejected]_vars

\* remove(a) has failed in a container that holds relations between other
\* nodes.
C14_Witness ==
    /\ Called("remove_object")
    /\ pc = "aborted"
    /\ size(m_conflicts) > 0

\* C17: the cascading mode is the one given to the constructor, false for
\* the default constructor; no step changes it, and cascading() returns it.
C17_CascadingFixed ==
    /\ [](Called("Conflicts") =>
             m_cascading = (IF call.args = <<>> THEN FALSE ELSE call.args[1]))
    /\ [](Called("cascading") => (pc = "returned" /\ ret = m_cascading))
    /\ [][m_cascading' = m_cascading]_vars

\* cascading() has returned true in a container that relations have been
\* added to.
C17_Witness ==
    /\ Called("cascading")
    /\ pc = "returned"
    /\ ret = TRUE
    /\ size(m_conflicts) >= 2

\* The unordered pairs of nodes that a stored relation joins.
ConflictPairs(s) ==
    {e \in SUBSET Nodes :
        /\ Cardinality(e) = 2
        /\ \E a, b \in e : a # b /\ LinkedIn(s, a, b)}

\* C15: size() is the number of unordered conflict pairs stored, empty() is
\* true exactly when size() is 0, a new container has size 0 and every
\* successful add raises size() by one.
C15_SizeCountsPairs ==
    /\ size(m_conflicts) = Cardinality(ConflictPairs(m_conflicts))
    /\ empty(m_conflicts) = (size(m_conflicts) = 0)
    /\ Called("Conflicts") => (size(m_conflicts) = 0 /\ empty(m_conflicts))
    /\ \A a, b \in Nodes :
          LET out == add(m_conflicts, a, b)
          IN  out.status = "ok" =>
                 /\ size(out.store) = size(m_conflicts) + 1
                 /\ ConflictPairs(out.store) = ConflictPairs(m_conflicts) \cup {{a, b}}
    /\ Called("size") =>
          (pc = "returned" /\ ret = Cardinality(ConflictPairs(m_conflicts)))
    /\ Called("empty") =>
          (pc = "returned" /\ ret = (ConflictPairs(m_conflicts) = {}))

\* size() has returned the number of pairs of a container filled to its
\* bound.
C15_Witness ==
    /\ Called("size")
    /\ pc = "returned"
    /\ ret = MaxSize
    /\ Cardinality(ConflictPairs(m_conflicts)) = MaxSize

\* C16: clear() never fails; from any state, empty ones included, it leaves
\* size() = 0 and empty() = true, and then in_conflict(a) and
\* in_conflict(a, b) are false for all nodes.
C16_ClearEmpties ==
    /\ LET cleared == clear(m_conflicts)
       IN  /\ size(cleared) = 0
           /\ empty(cleared)
           /\ \A a \in Nodes : ~in_conflict_object(cleared, a)
           /\ \A a, b \in Nodes : in_conflict(cleared, a, b) = Returned(FALSE)
    /\ Called("clear") =>
          /\ pc = "returned"
          /\ size(m_conflicts) = 0
          /\ empty(m_conflicts)
          /\ \A a \in Nodes : ~in_conflict_object(m_conflicts, a)
          /\ \A a, b \in Nodes : in_conflict(m_conflicts, a, b) = Returned(FALSE)

\* clear() has returned in a cascading container.
C16_Witness ==
    /\ m_cascading
    /\ Called("clear")
    /\ pc = "returned"
    /\ empty(m_conflicts)

\* The nodes a, b and c are distinct and every two of them are joined by a
\* stored relation of s.
CycleIn(s, a, b, c) ==
    /\ Cardinality({a, b, c}) = 3
    /\ LinkedIn(s, a, b)
    /\ LinkedIn(s, b, c)
    /\ LinkedIn(s, c, a)

\* The call add(a, b) would close, or has closed, a cycle of three: a third
\* node is joined to both a and b by stored relations.
ClosesCycle(s, a, b) ==
    \E c \in Nodes \ {a, b} : a # b /\ LinkedIn(s, a, c) /\ LinkedIn(s, c, b)

\* C18 as stated: a cascading container comes to hold a-b, b-c and c-a at
\* once, that is, the add of the relation that closes the cycle is accepted
\* (and the recursion then meets the cycle).
C18_CycleCanBeHeld ==
    (/\ m_cascading
     /\ Called("add")
     /\ ClosesCycle(m_conflicts, call.args[1], call.args[2]))
        => /\ pc = "returned"
           /\ CycleIn(m_conflicts, call.args[1], call.args[2],
                      CHOOSE c \in Nodes :
                          /\ LinkedIn(m_conflicts, call.args[1], c)
                          /\ LinkedIn(m_conflicts, c, call.args[2]))

\* C18, amended: a cascading container never holds a-b, b-c and c-a at
\* once, because the add that would close the cycle is rejected; so its
\* recursions return and all_conflicts lists no node twice. Had the closing
\* relation been stored all the same, the recursion of all_conflicts from
\* its endpoints would run beyond the depth bound. With cascading off the
\* three relations can be held, and all_conflicts does not recurse.
C18_NoCycleHeld ==
    /\ m_cascading =>
          /\ \A a, b, c \in Nodes : ~CycleIn(m_conflicts, a, b, c)
          /\ \A a, b \in Nodes :
                ClosesCycle(m_conflicts, a, b)
                   => add(m_conflicts, a, b) = Outcome("aborted", m_conflicts)
          /\ (Called("add") /\ ClosesCycle(m_conflicts, call.args[1], call.args[2]))
                => pc = "aborted"
          /\ \A a \in Nodes :
                LET all == all_conflicts(m_conflicts, a)
                IN  all.done /\ \A b \in Nodes : Count(all.val, b) <= 1
          /\ \A a, b \in Nodes : in_conflict(m_conflicts, a, b).done
          /\ \A a, b \in Nodes :
                ClosesCycle(m_conflicts, a, b)
                   => LET closed == m_conflicts_add(m_conflicts, a, b)
                      IN  /\ ~all_conflicts_from(closed, a, NULL, MaxDepth).done
                          /\ ~all_conflicts_from(closed, b, NULL, MaxDepth).done
    /\ pc # "overflow"

\* A cascading container has rejected the add of the relation that would
\* have closed a cycle of three.
C18_Witness ==
    /\ m_cascading
    /\ Called("add")
    /\ pc = "aborted"
    /\ ClosesCycle(m_conflicts, call.args[1], call.args[2])
    /\ size(m_conflicts) = 2

\* C19: in every reachable state and in both modes, in_conflict(a, b) and
\* all_conflicts(a) return for all nodes, nodes without relation included:
\* no call runs beyond the depth that the number of nodes allows.
C19_QueriesTerminate ==
    /\ \A a, b \in Nodes :
          /\ in_conflict(m_conflicts, a, b).done
          /\ deep_search(m_conflicts, a, b, NULL, NumNodes + 1).done
    /\ \A a \in Nodes :
          /\ all_conflicts(m_conflicts, a).done
          /\ m_cascading => all_conflicts_from(m_conflicts, a, NULL, NumNodes + 1).done
    /\ Called("in_conflict") => pc = "returned"
    /\ Called("all_conflicts") => pc = "returned"
    /\ pc # "overflow"

\* in_conflict has returned false in a cascading container for a node that
\* has a relation and a node that is in no relation.
C19_Witness ==
    /\ m_cascading
    /\ Called("in_conflict")
    /\ pc = "returned"
    /\ ret = FALSE
    /\ RelationsOf(m_conflicts, call.args[1]) > 0
    /\ RelationsOf(m_conflicts, call.args[2]) = 0
    /\ size(m_conflicts) >= 1

\* The stored relations of s form a forest: no relation from a node to
\* itself, at most one entry between two nodes, and the endpoints of every
\* stored relation are joined by no path once that relation is taken away.
Forest(s) ==
    /\ \A p \in DOMAIN s : p[1] # p[2]
    /\ \A a, b \in Nodes : CopiesIn(<<a, b>>, s) + CopiesIn(<<b, a>>, s) <= 1
    /\ \A p \in DOMAIN s : ~ConnectedIn(s (-) Single(p[1], p[2]), p[1], p[2])

\* C20: with cascading on, the stored relations form a forest in every
\* reachable state, and add rejects every pair whose endpoints a path
\* already joins.
C20_CascadingForest ==
    m_cascading =>
        /\ Forest(m_conflicts)
        /\ size(m_conflicts) < NumNodes
        /\ \A a, b \in Nodes :
              ConnectedIn(m_conflicts, a, b)
                 => add(m_conflicts, a, b) = Outcome("aborted", m_conflicts)
        /\ \A a, b \in Nodes :
              add(m_conflicts, a, b).status = "ok"
                 => Forest(add(m_conflicts, a, b).store)

\* An add has returned in a cascading container whose relations now join
\* all the nodes.
C20_Witness ==
    /\ m_cascading
    /\ Called("add")
    /\ pc = "returned"
    /\ size(m_conflicts) = NumNodes - 1
    /\ Component(m_conflicts, call.args[1]) = Nodes

\* C21: in the state a successful remove(a, b) leaves, in both modes,
\* in_conflict(a, b) is false and add(a, b) and add(b, a) are accepted;
\* with cascading on no chain joins a and b any more, every two nodes that
\* were joined only through the removed relation are no longer in
\* conflict, and all other answers of in_conflict are as before.
C21_RemoveThenFree ==
    [][(call'.op = "remove" /\ pc' = "returned") =>
          LET a == call'.args[1]
              b == call'.args[2]
              before == m_conflicts
              after == m_conflicts'
              remaining == (before (-) Single(a, b)) (-) Single(b, a)
          IN  /\ LinkedIn(before, a, b)
              /\ in_conflict(after, a, b) = Returned(FALSE)
              /\ in_conflict(after, b, a) = Returned(FALSE)
              /\ add(after, a, b).status = "ok"
              /\ add(after, b, a).status = "ok"
              /\ m_cascading => ~ConnectedIn(after, a, b)
              /\ \A x, y \in Nodes :
                    x # y =>
                       in_conflict(after, x, y)
                          = Returned(InConflictIn(before, x, y)
                                     /\ InConflictIn(remaining, x, y))]_vars

\* A successful remove(a, b) has left a cascading container in which a
\* third node keeps its relation with one of a and b and is therefore no
\* longer in conflict with the other.
C21_Witness ==
    /\ m_cascading
    /\ Called("remove")
    /\ pc = "returned"
    /\ ~ConnectedIn(m_conflicts, call.args[1], call.args[2])
    /\ \E c \in Nodes \ {call.args[1], call.args[2]} :
          \/ LinkedIn(m_conflicts, call.args[1], c)
          \/ LinkedIn(m_conflicts, call.args[2], c)

\* C22: in_conflict(a, a) returns false with cascading off; with cascading
\* on it returns true exactly when a is an endpoint of a stored relation,
\* although no relation from a node to itself is stored.
C22_InConflictSelf ==
    /\ \A a \in Nodes :
          /\ ~LinkedIn(m_conflicts, a, a)
          /\ in_conflict(m_conflicts, a, a)
                = Returned(m_cascading /\ RelationsOf(m_conflicts, a) > 0)
    /\ (Called("in_conflict") /\ call.args[1] = call.args[2]) =>
          /\ pc = "returned"
          /\ ret = (m_cascading /\ RelationsOf(m_conflicts, call.args[1]) > 0)

\* in_conflict(a, a) has returned true in a cascading container.
C22_Witness ==
    /\ m_cascading
    /\ Called("in_conflict")
    /\ call.args[1] = call.args[2]
    /\ pc = "returned"
    /\ ret = TRUE
    /\ ~StoredIn(m_conflicts, call.args[1], call.args[1])

=============================================================================
